---- MODULE Spec2Model ----
(***************************************************************************)
(* Model of lab_5_scrapper/scrapper.py: the link discovery of Crawler and  *)
(* CrawlerRecursive (with its persisted crawler_data.json), the article    *)
(* extraction of HTMLParser and the loop of main / main_recursive.         *)
(*                                                                         *)
(* A URL string is modelled by its parsed form, a record                   *)
(* [scheme, netloc, path]; the path is the sequence of its pieces, "/"     *)
(* first when it is rooted.  The empty string is the record of three       *)
(* empty parts.                                                            *)
(***************************************************************************)
EXTENDS Integers, Sequences, FiniteSets, TLC

\* ------------------------------------------------------------------ bounds
\* Largest configured number of articles explored.
MaxTarget == 3
\* Most anchors on one listing page.
MaxAnchors == 2
\* Most processes (runs of main_recursive) over one state file.
MaxRuns == 2
\* Most find_articles invocations followed in one run.
MaxSteps == 3
\* Most anchors with href on one article page.
MaxLinks == 2

VARIABLES
    pc,                 \* where the program is
    err,                \* the exception that ended it, "" when none
    target,             \* Config.get_num_articles()
    urls,               \* Crawler.urls
    start_url,          \* CrawlerRecursive.start_url
    num_visited_urls,   \* CrawlerRecursive.num_visited_urls
    visited_urls,       \* CrawlerRecursive.visited_urls
    file,               \* crawler_data.json
    file_target,        \* the target of the process that wrote the file
    loaded,             \* whether this process took its state from the file
    site,               \* the pages of the site, fixed at their first fetch
    steps,              \* find_articles invocations of the current run
    run,                \* processes started so far
    seen,               \* the seed pages Crawler.find_articles has fetched
    next_id,            \* the position of the loop of main in crawler.urls
    written,            \* the articles handed to to_raw and to_meta
    article_page,       \* the page HTMLParser.parse is given
    article             \* HTMLParser.article

crawler_vars == <<target, urls>>

recursive_vars == <<start_url, num_visited_urls, visited_urls, file,
                    file_target, loaded, site, steps, run>>

main_vars == <<seen, next_id, written>>

parser_vars == <<article_page, article>>

vars == <<pc, err, crawler_vars, recursive_vars, main_vars, parser_vars>>

\* config.get_num_articles(): the documented range starts at 1.
Targets == 1..MaxTarget

\* ------------------------------------------------------------------- URLs
Str(s, n, p) == [scheme |-> s, netloc |-> n, path |-> p]

EmptyStr == Str("", "", <<>>)

\* The base of _extract_url, 'https://www.business-gazeta.ru/'.
BaseUrl == Str("https", "www.business-gazeta.ru", <<"/">>)

\* config.get_seed_urls()[0]
SeedUrl == Str("https", "www.business-gazeta.ru", <<"/", "news">>)

\* urllib.parse.urlparse(url).netloc
netloc(url) == url.netloc

\* urllib.parse.urljoin(base, url) for a base whose path is a directory.
urljoin(base, url) ==
    IF url = EmptyStr THEN base
    ELSE IF url.scheme # "" /\ url.scheme # base.scheme THEN url
    ELSE IF url.netloc # "" THEN Str(base.scheme, url.netloc, url.path)
    ELSE IF url.path = <<>> THEN base
    ELSE IF Head(url.path) = "/" THEN Str(base.scheme, base.netloc, url.path)
    ELSE Str(base.scheme, base.netloc, base.path \o url.path)

\* An anchor node: whether it carries href, the href, and whether it has the
\* class article-news__title.
Anchor(has, h, c) == [has_href |-> has, href |-> h, cls |-> c]

\* Crawler._extract_url: '' when href is absent or empty.
extract_url(a) ==
    IF a.has_href /\ a.href # EmptyStr
    THEN LET full_url == urljoin(BaseUrl, a.href)
         IN  IF full_url.scheme = ""
             THEN Str("http", full_url.netloc, full_url.path)
             ELSE full_url
    ELSE EmptyStr

InSeq(x, s) == \E i \in 1..Len(s) : s[i] = x

NoDup(s) == \A i, j \in 1..Len(s) : s[i] = s[j] => i = j

ToSet(s) == {s[i] : i \in 1..Len(s)}

\* ------------------------------------------------------------- the site
\* The href values of the anchors: article 1 as a rooted path and in full,
\* a relative path, another rooted path, and the listing page B of the
\* same origin.
Href_a1 == Str("", "", <<"/", "a1">>)

Href_a1_abs == Str("https", "www.business-gazeta.ru", <<"/", "a1">>)

Href_a2 == Str("", "", <<"a2">>)

Href_a3 == Str("", "", <<"/", "a3">>)

Href_B == Str("https", "www.business-gazeta.ru", <<"/", "B">>)

\* The hrefs on the pages of the recursive crawl.
Hrefs == {Href_a1, Href_a2, Href_a3, Href_B}

NoHrefAnchor == Anchor(FALSE, EmptyStr, FALSE)

\* Anchors of the pages the recursive crawler reads (it ignores the class):
\* one per href of Hrefs, and one without href.
Anchors == {Anchor(TRUE, h, FALSE) : h \in Hrefs} \cup {NoHrefAnchor}

SeqsUpTo(S, n) == UNION {[1..k -> S] : k \in 0..n}

\* What a fetch can return: a page, or a failure of the request.
Page(as) == [fetched |-> TRUE, ok |-> TRUE, anchors |-> as]

FetchFailure == [fetched |-> TRUE, ok |-> FALSE, anchors |-> <<>>]

Unfetched == [fetched |-> FALSE, ok |-> FALSE, anchors |-> <<>>]

Pages == {Page(as) : as \in SeqsUpTo(Anchors, MaxAnchors)} \cup {FetchFailure}

\* The URLs a request can be made to.
SiteUrls == {SeedUrl} \cup {h \in Hrefs : h.scheme # ""}

\* make_request(url, config): what the site answers; the same page on every
\* fetch of the same URL.
make_request(url) ==
    IF url \notin SiteUrls THEN {FetchFailure}
    ELSE IF site[url].fetched THEN {site[url]}
    ELSE Pages

\* ------------------------------------------------------- crawler_data.json
\* The file: absent, unparseable, or a JSON object with some of the keys.
NoFile ==
    [exists |-> FALSE, json |-> FALSE, keys |-> {},
     num_visited_urls |-> 0, start_url |-> EmptyStr,
     urls |-> <<>>, visited_urls |-> <<>>]

Garbage == [NoFile EXCEPT !.exists = TRUE]

AllKeys == {"num_visited_urls", "start_url", "urls", "visited_urls"}

\* A save that writes the cursor as it was before line 382.
save_stale_cursor(n, s, u, v) ==
    [exists |-> TRUE, json |-> TRUE, keys |-> AllKeys,
     num_visited_urls |-> n - 1, start_url |-> s, urls |-> u,
     visited_urls |-> v]

\* CrawlerRecursive.save_crawler_data
save_crawler_data(n, s, u, v) ==
    [exists |-> TRUE, json |-> TRUE, keys |-> AllKeys,
     num_visited_urls |-> n, start_url |-> s, urls |-> u, visited_urls |-> v]

\* The fields after Crawler.__init__ and CrawlerRecursive.__init__, before
\* load_crawler_data.
Defaults ==
    [num_visited_urls |-> 0, start_url |-> SeedUrl, urls |-> <<>>,
     visited_urls |-> <<>>, err |-> ""]

\* The order in which load_crawler_data reads the keys.
LoadOrder == <<"num_visited_urls", "start_url", "urls", "visited_urls">>

RECURSIVE load_from(_, _, _)
\* Lines 341-344: one assignment after the other; a missing key raises
\* KeyError at its line, after the earlier assignments.
load_from(f, st, i) ==
    IF i > Len(LoadOrder) THEN st
    ELSE IF LoadOrder[i] \notin f.keys THEN [st EXCEPT !.err = "KeyError"]
    ELSE load_from(f, [st EXCEPT ![LoadOrder[i]] = f[LoadOrder[i]]], i + 1)

\* CrawlerRecursive.load_crawler_data
load_crawler_data(f, st) ==
    IF ~f.exists THEN st
    ELSE IF ~f.json THEN st
    ELSE load_from(f, st, 1)

\* ------------------------------------------------------ Crawler.find_articles
\* config.get_seed_urls()
Seeds == <<SeedUrl, Str("https", "www.business-gazeta.ru", <<"/", "more">>)>>

\* Anchors of the seed pages: with the class article-news__title, and one
\* article link without it.
CrawlAnchors ==
    {Anchor(TRUE, h, TRUE) : h \in {Href_a1, Href_a1_abs, Href_a2, Href_a3}}
        \cup {Anchor(FALSE, EmptyStr, TRUE), Anchor(TRUE, Href_a3, FALSE)}

SeedPages ==
    {Page(as) : as \in SeqsUpTo(CrawlAnchors, MaxAnchors)} \cup {FetchFailure}

\* soup.find_all('a', class_="article-news__title")
find_all_titles(as) == SelectSeq(as, LAMBDA a : a.cls)

\* A cap that lets one URL too many in.
at_cap_late(u, t) == Len(u) > t

\* Line 222
at_cap(u, t) == Len(u) >= t

RECURSIVE collect(_, _, _, _)
\* Lines 221-227: the loop over the anchors selected, from anchor i on;
\* returned tells whether line 223 was reached.
collect(ps, i, u, t) ==
    IF i > Len(ps) THEN [urls |-> u, returned |-> FALSE]
    ELSE IF at_cap(u, t) THEN [urls |-> u, returned |-> TRUE]
    ELSE LET url == extract_url(ps[i])
         IN  IF url = EmptyStr \/ InSeq(url, u)
             THEN collect(ps, i + 1, u, t)
             ELSE collect(ps, i + 1, Append(u, url), t)

\* One turn of the loop over the seed URLs, with the request of line 219.
Crawler_find_articles ==
    /\ pc = "crawling"
    /\ \E page \in SeedPages :
        /\ seen' = Append(seen, page)
        /\ IF ~page.ok
           THEN /\ pc' = "error"
                /\ err' = "FetchError"
                /\ urls' = urls
           ELSE LET r == collect(find_all_titles(page.anchors), 1, urls,
                                 target)
                IN  /\ urls' = r.urls
                    /\ err' = ""
                    /\ pc' = IF r.returned \/ Len(seen) + 1 = Len(Seeds)
                             THEN "crawled"
                             ELSE "crawling"
    /\ UNCHANGED <<target, recursive_vars, next_id, written, parser_vars>>

\* ------------------------------------------------------------- HTMLParser
\* An article page: whether the request succeeds, whether h1.article__h1 and
\* div.articleBody are there, the author node and the date node with their
\* attributes, and the anchors that carry href.
Node(n, a, v) == [node |-> n, has_attr |-> a, value |-> v]

Link(c, h, v) == [category |-> c, has_title |-> h, title |-> v]

ArticlePage(o, t, b, au, d, ls) ==
    [ok |-> o, title |-> t, body |-> b, author |-> au, date |-> d,
     links |-> ls]

NoArticlePage ==
    ArticlePage(FALSE, FALSE, FALSE, Node(FALSE, FALSE, <<>>),
                Node(FALSE, FALSE, <<>>), <<>>)

\* The attribute values: '' is the empty sequence; a date is the sequence of
\* its pieces.
AuthorValues == {<<>>, <<"Ivanov">>}

DateValues ==
    { <<>>,
      <<"2023-05-01", "MSK", "10:00">>,
      <<"2023-05-01", "T", "10:00", "MSK">> }

NodesOf(values) ==
    {Node(FALSE, FALSE, <<>>), Node(TRUE, FALSE, <<>>)}
        \cup {Node(TRUE, TRUE, v) : v \in values}

Links ==
    { Link(TRUE, TRUE, <<"economy">>), Link(TRUE, TRUE, <<>>),
      Link(TRUE, FALSE, <<>>), Link(FALSE, TRUE, <<"menu">>) }

ArticlePages ==
    { ArticlePage(TRUE, t, b, au, d, ls) :
        t \in BOOLEAN, b \in BOOLEAN, au \in NodesOf(AuthorValues),
        d \in NodesOf(DateValues), ls \in SeqsUpTo(Links, MaxLinks) }
        \cup {NoArticlePage}

\* Article(url, article_id) with nothing filled in.
NoArticle ==
    [title |-> FALSE, text |-> FALSE, author |-> <<>>, has_date |-> FALSE,
     date |-> <<>>, topics |-> <<>>]

\* date.replace("MSK", " ")
replace_msk(d) == [i \in 1..Len(d) |-> IF d[i] = "MSK" THEN " " ELSE d[i]]

\* Whether strptime(date_str, '%Y-%m-%d %H:%M:%S') accepts the pieces.
strptime_ok(d) ==
    /\ Len(d) = 4
    /\ d[1] = "2023-05-01" /\ d[2] = " " /\ d[3] = "10:00" /\ d[4] = ":00"

RECURSIVE tags(_, _, _)
\* Lines 281-284
tags(ls, i, topics) ==
    IF i > Len(ls) THEN topics
    ELSE IF ls[i].category /\ ls[i].has_title /\ ls[i].title # <<>>
    THEN tags(ls, i + 1, Append(topics, ls[i].title))
    ELSE tags(ls, i + 1, topics)

\* HTMLParser._fill_article_with_meta_information, after the text is
\* filled in.
fill_article_with_meta_information(a, pg) ==
    IF ~pg.author.node THEN [err |-> "AttributeError", article |-> a]
    ELSE LET a1 == [a EXCEPT !.author =
                        IF pg.author.has_attr /\ pg.author.value # <<>>
                        THEN <<pg.author.value>>
                        ELSE <<<<"NOT FOUND">>>>]
         IN  IF ~pg.date.node THEN [err |-> "AttributeError", article |-> a1]
             ELSE LET str == replace_msk(pg.date.value) \o <<":00">>
                      dated == pg.date.has_attr /\ pg.date.value # <<>>
                  IN  IF dated /\ ~strptime_ok(str)
                      THEN [err |-> "ValueError", article |-> a1]
                      ELSE [err |-> "",
                            article |->
                              [a1 EXCEPT
                                 !.has_date = dated,
                                 !.date = IF dated THEN str ELSE <<>>,
                                 !.topics = tags(pg.links, 1, a1.topics)]]

\* HTMLParser.parse: the request, _fill_article_with_text (lines 255-259),
\* then the meta information.
parse(pg) ==
    IF ~pg.ok THEN [err |-> "FetchError", article |-> NoArticle]
    ELSE IF ~pg.title THEN [err |-> "AttributeError", article |-> NoArticle]
    ELSE IF ~pg.body
    THEN [err |-> "AttributeError",
          article |-> [NoArticle EXCEPT !.title = TRUE]]
    ELSE fill_article_with_meta_information(
            [NoArticle EXCEPT !.title = TRUE, !.text = TRUE], pg)

\* What parse can come to, over all article pages.
ParseResults == {parse(pg) : pg \in ArticlePages}

\* parser.parse() on the page given.
HTMLParser_parse ==
    /\ pc = "parse"
    /\ article' = parse(article_page).article
    /\ err' = parse(article_page).err
    /\ pc' = IF parse(article_page).err = "" THEN "parsed" ELSE "error"
    /\ UNCHANGED <<crawler_vars, recursive_vars, main_vars, article_page>>

\* -------------------------------------------------- main, main_recursive
\* One turn of the loop over crawler.urls (lines 395-400, and 411-418 alike):
\* the article is parsed and written; an exception of parse leaves main.
main ==
    /\ pc \in {"crawled", "parsing"}
    /\ seen' = <<>>
    /\ IF next_id = Len(urls)
       THEN /\ pc' = "finished"
            /\ UNCHANGED <<err, next_id, written>>
       ELSE \E r \in ParseResults :
            IF r.err # ""
            THEN /\ pc' = "aborted"
                 /\ err' = r.err
                 /\ UNCHANGED <<next_id, written>>
            ELSE /\ pc' = "parsing"
                 /\ err' = ""
                 /\ next_id' = next_id + 1
                 /\ written' = Append(written, [article_id |-> next_id + 1,
                                                url |-> urls[next_id + 1]])
    /\ UNCHANGED <<crawler_vars, recursive_vars, parser_vars>>

\* --------------------------------------------- CrawlerRecursive.find_articles
RECURSIVE scan_links(_, _, _, _, _, _)
\* Lines 370-380: the loop over the anchors of the page, from anchor i on.
\* Yields the pair <<urls, visited_urls>>.
scan_links(as, i, u, v, cur, t) ==
    IF i > Len(as) THEN <<u, v>>
    ELSE LET link == as[i]
             url == extract_url(link)
         IN  IF url # EmptyStr
             THEN IF ~InSeq(url, u) /\ Len(u) < t
                  THEN scan_links(as, i + 1, Append(u, url), v, cur, t)
                  ELSE scan_links(as, i + 1, u, v, cur, t)
             ELSE IF link.has_href /\ link.href # EmptyStr
                     /\ ~InSeq(link.href, v)
                     /\ netloc(link.href) = netloc(cur)
                  THEN scan_links(as, i + 1, u, Append(v, link.href), cur, t)
                  ELSE scan_links(as, i + 1, u, v, cur, t)

\* The fields of a CrawlerRecursive, with the file and where the call is.
CrawlerState(p, e, n, s, u, v, f) ==
    [pc |-> p, err |-> e, num_visited_urls |-> n, start_url |-> s,
     urls |-> u, visited_urls |-> v, file |-> f]

Self ==
    CrawlerState(pc, err, num_visited_urls, start_url, urls, visited_urls, file)

\* Line 367: whether visited_urls[num_visited_urls - 1] exists.
index_in_range(st) ==
    /\ st.num_visited_urls - 1 < Len(st.visited_urls)
    /\ st.num_visited_urls - 1 >= 0 - Len(st.visited_urls)

\* Lines 366-367: the page of this invocation (Python counts from 0, and
\* from the end for a negative index).
current_url(st) ==
    IF st.num_visited_urls # 0
    THEN IF st.num_visited_urls - 1 >= 0
         THEN st.visited_urls[st.num_visited_urls]
         ELSE st.visited_urls[Len(st.visited_urls) + st.num_visited_urls]
    ELSE st.start_url

\* Whether line 367 raises IndexError.
raises_index_error(st) == st.num_visited_urls # 0 /\ ~index_in_range(st)

\* A cursor that is never advanced.
keep_cursor(n) == n

\* Line 382
next_cursor(n) == n + 1

\* Lines 368-384 for the page fetched: the scan, then either the return or
\* the increment and the save that precede the recursive call.
expand(st, page, t) ==
    LET cur == current_url(st)
    IN  IF ~page.ok
        THEN [st EXCEPT !.pc = "error", !.err = "FetchError",
                        !.start_url = cur]
        ELSE LET r == scan_links(page.anchors, 1, st.urls, st.visited_urls,
                                 cur, t)
                 n == next_cursor(st.num_visited_urls)
             IN  IF Len(r[1]) < t
                 THEN CrawlerState("expanding", "", n, cur, r[1], r[2],
                              save_crawler_data(n, cur, r[1], r[2]))
                 ELSE CrawlerState("done", "", st.num_visited_urls, cur, r[1],
                              r[2], st.file)

\* One invocation of find_articles, up to its recursive call.
find_articles ==
    /\ pc = "expanding"
    /\ steps < MaxSteps
    /\ steps' = steps + 1
    /\ UNCHANGED <<target, run, loaded, main_vars, parser_vars>>
    /\ IF raises_index_error(Self)
       THEN /\ pc' = "error"
            /\ err' = "IndexError"
            /\ UNCHANGED <<urls, start_url, num_visited_urls, visited_urls,
                           file, file_target, site>>
       ELSE \E page \in make_request(current_url(Self)) :
            LET st == expand(Self, page, target)
            IN  /\ site' = IF current_url(Self) \in SiteUrls
                           THEN [site EXCEPT ![current_url(Self)] = page]
                           ELSE site
                /\ pc' = st.pc
                /\ err' = st.err
                /\ urls' = st.urls
                /\ start_url' = st.start_url
                /\ num_visited_urls' = st.num_visited_urls
                /\ visited_urls' = st.visited_urls
                /\ file' = st.file
                /\ file_target' = IF st.file # file THEN target
                                  ELSE file_target

\* CrawlerRecursive.__init__ in a new process, then the call of
\* find_articles by main_recursive; the file is the one on disk.
Construct(t) ==
    LET st == load_crawler_data(file, Defaults)
    IN  /\ target' = t
        /\ num_visited_urls' = st.num_visited_urls
        /\ start_url' = st.start_url
        /\ urls' = st.urls
        /\ visited_urls' = st.visited_urls
        /\ err' = st.err
        /\ pc' = IF st.err = "" THEN "expanding" ELSE "error"
        /\ loaded' = (file.exists /\ file.json)
        /\ steps' = 0
        /\ run' = run + 1
        /\ UNCHANGED <<file, file_target, site, main_vars, parser_vars>>

\* main_recursive is started: at first, after the process before it has
\* ended, or after that was stopped from outside between two invocations.
CrawlerRecursive_init ==
    /\ pc \in {"start", "expanding", "done", "error"}
    /\ run < MaxRuns
    /\ \E t \in Targets : Construct(t)

\* The process is stopped from outside while save_crawler_data writes: the
\* file is left truncated.
KilledInSave ==
    /\ pc = "expanding"
    /\ steps < MaxSteps
    /\ ~raises_index_error(Self)
    /\ \E page \in make_request(current_url(Self)) :
        /\ page.ok
        /\ expand(Self, page, target).pc = "expanding"
        /\ site' = IF current_url(Self) \in SiteUrls
                   THEN [site EXCEPT ![current_url(Self)] = page]
                   ELSE site
    /\ file' = Garbage
    /\ pc' = "error"
    /\ err' = "Killed"
    /\ UNCHANGED <<target, urls, start_url, num_visited_urls, visited_urls,
                   file_target, loaded, steps, run, main_vars, parser_vars>>

\* What a specification leaves alone.
IdleMain == seen = <<>> /\ next_id = 0 /\ written = <<>>

IdleParser == article_page = NoArticlePage /\ article = NoArticle

IdleRecursive ==
    /\ file = NoFile
    /\ file_target = 0
    /\ loaded = FALSE
    /\ site = [u \in SiteUrls |-> Unfetched]
    /\ start_url = SeedUrl
    /\ num_visited_urls = 0
    /\ visited_urls = <<>>
    /\ steps = 0
    /\ run = 0

InitRecursive ==
    /\ target = 0
    /\ file = NoFile
    /\ file_target = 0
    /\ loaded = FALSE
    /\ site = [u \in SiteUrls |-> Unfetched]
    /\ urls = <<>>
    /\ start_url = SeedUrl
    /\ num_visited_urls = 0
    /\ visited_urls = <<>>
    /\ pc = "start"
    /\ err = ""
    /\ steps = 0
    /\ run = 0
    /\ IdleMain
    /\ IdleParser

NextRecursive == find_articles \/ CrawlerRecursive_init \/ KilledInSave

SpecRecursive == InitRecursive /\ [][NextRecursive]_vars

\* The state files a process may find when it starts: every key present,
\* the cursor within visited_urls or past its end.
ResumeFiles ==
    { save_crawler_data(n, SeedUrl, u, v) :
        n \in {0, 1},
        u \in {<<>>, <<Str("https", "www.business-gazeta.ru", <<"/", "a1">>)>>},
        v \in {<<>>, <<Href_B>>} }

\* One process from the call of find_articles on, whatever state it was
\* constructed with: the defaults, or the content of such a file.
InitResume ==
    /\ file \in {NoFile} \cup ResumeFiles
    /\ target \in Targets
    /\ file_target = 0
    /\ loaded = file.exists
    /\ site = [u \in SiteUrls |-> Unfetched]
    /\ urls = load_crawler_data(file, Defaults).urls
    /\ start_url = load_crawler_data(file, Defaults).start_url
    /\ num_visited_urls = load_crawler_data(file, Defaults).num_visited_urls
    /\ visited_urls = load_crawler_data(file, Defaults).visited_urls
    /\ pc = "expanding"
    /\ err = ""
    /\ steps = 0
    /\ run = 1
    /\ IdleMain
    /\ IdleParser

\* The scheduling of one process: a call that can go on does go on.
FairSpecResume ==
    InitResume /\ [][find_articles]_vars /\ WF_vars(find_articles)

\* The state files load_crawler_data may find: none, an unparseable one, and
\* JSON objects with any of the keys.
StateObject(K, n, u, v) ==
    [exists |-> TRUE, json |-> TRUE, keys |-> K,
     num_visited_urls |-> IF "num_visited_urls" \in K THEN n ELSE 0,
     start_url |-> IF "start_url" \in K THEN SeedUrl ELSE EmptyStr,
     urls |-> IF "urls" \in K THEN u ELSE <<>>,
     visited_urls |-> IF "visited_urls" \in K THEN v ELSE <<>>]

LoadFiles ==
    {NoFile, Garbage} \cup
    { StateObject(K, n, u, v) :
        K \in SUBSET AllKeys, n \in {0, 1},
        u \in {<<>>, <<Str("https", "www.business-gazeta.ru", <<"/", "a1">>)>>},
        v \in {<<>>, <<Href_B>>} }

InitLoad ==
    /\ file \in LoadFiles
    /\ target = 0
    /\ file_target = 0
    /\ loaded = FALSE
    /\ site = [u \in SiteUrls |-> Unfetched]
    /\ urls = <<>>
    /\ start_url = SeedUrl
    /\ num_visited_urls = 0
    /\ visited_urls = <<>>
    /\ pc = "start"
    /\ err = ""
    /\ steps = 0
    /\ run = 0
    /\ IdleMain
    /\ IdleParser

SpecLoad == InitLoad /\ [][CrawlerRecursive_init]_vars

\* main: CrawlerState(config), find_articles, then the loop over the URLs.
InitMain ==
    /\ target \in Targets
    /\ urls = <<>>
    /\ pc = "crawling"
    /\ err = ""
    /\ IdleMain
    /\ IdleRecursive
    /\ IdleParser

NextMain == Crawler_find_articles \/ main

SpecMain == InitMain /\ [][NextMain]_vars

\* HTMLParser.parse on every article page.
InitParse ==
    /\ article_page \in ArticlePages
    /\ article = NoArticle
    /\ target = 0
    /\ urls = <<>>
    /\ pc = "parse"
    /\ err = ""
    /\ IdleMain
    /\ IdleRecursive

SpecParse == InitParse /\ [][HTMLParser_parse]_vars

\* ===================================================== the recursive crawl
\* The resolved URLs of the three articles.
Url_a1 == Str("https", "www.business-gazeta.ru", <<"/", "a1">>)

Url_a2 == Str("https", "www.business-gazeta.ru", <<"/", "a2">>)

Url_a3 == Str("https", "www.business-gazeta.ru", <<"/", "a3">>)

Ended == pc \in {"done", "error"} /\ err # "Killed"

\* C1: in every reachable state the discovered-URL list holds no duplicate
\* and is no longer than the configured target count, also in a run that
\* starts from a state file an earlier run wrote under another target.
C1_NoDuplicateWithinTarget == NoDup(urls) /\ Len(urls) <= target

\* The file holds exactly the fields n, s, u, v.
Persisted(f, n, s, u, v) ==
    /\ f.exists /\ f.json /\ f.keys = AllKeys
    /\ f.num_visited_urls = n
    /\ f.start_url = s
    /\ f.urls = u
    /\ f.visited_urls = v

\* C2, as claimed: after every expansion step, the one that reaches the
\* target included, the file holds the in-memory state.
C2_SavedAfterEveryStep ==
    (steps > 0 /\ pc \in {"expanding", "done"})
        => Persisted(file, num_visited_urls, start_url, urls, visited_urls)

\* C2, amended: an expansion step that leaves the count below the target
\* ends with the file holding the in-memory state (the cursor already
\* advanced); a step that reaches the target, or raises, leaves the file as
\* it was.
C2_SavedWhileBelowTarget ==
    [][(pc = "expanding" /\ steps' = steps + 1)
        => /\ pc' = "expanding"
                => Persisted(file', num_visited_urls', start_url', urls',
                             visited_urls')
           /\ pc' # "expanding" => file' = file]_vars

C2_StepSaved ==
    /\ pc = "expanding" /\ steps = 1 /\ Len(urls) > 0
    /\ Persisted(file, num_visited_urls, start_url, urls, visited_urls)

RECURSIVE run_on(_, _, _)
\* find_articles run without interruption from st over the pages of the
\* site, as far as they are known.
run_on(st, t, fuel) ==
    IF st.pc # "expanding" \/ fuel = 0 THEN st
    ELSE IF raises_index_error(st)
    THEN [st EXCEPT !.pc = "error", !.err = "IndexError"]
    ELSE LET cur == current_url(st)
         IN  IF cur \notin SiteUrls THEN expand(st, FetchFailure, t)
             ELSE IF ~site[cur].fetched THEN st
             ELSE run_on(expand(st, site[cur], t), t, fuel - 1)

UninterruptedUrls ==
    run_on(CrawlerState("expanding", "", 0, SeedUrl, <<>>, <<>>, NoFile),
           target, MaxSteps).urls

C4_CursorInRange ==
    /\ 0 <= num_visited_urls
    /\ num_visited_urls <= Len(visited_urls)
    /\ err # "IndexError"

\* C5: a call of find_articles that is under way ends, in Done or with a
\* raised error.
C5_Terminates == (pc = "expanding") ~> (pc \in {"done", "error"})

C5_StopsBelowTarget ==
    /\ pc = "error" /\ err = "IndexError" /\ Len(urls) < target
    /\ steps = 3 /\ site[SeedUrl].fetched /\ site[Href_B].fetched

\* The site of the scenario: page A with one article link and a link to
\* page B, page B with two more article links.
TwoPageSite ==
    /\ site[SeedUrl] = Page(<<Anchor(TRUE, Href_a1, FALSE),
                              Anchor(TRUE, Href_B, FALSE)>>)
    /\ site[Href_B].fetched
          => site[Href_B] = Page(<<Anchor(TRUE, Href_a2, FALSE),
                                   Anchor(TRUE, Href_a3, FALSE)>>)

\* C6: on the two-page site, from the empty state and with target 3,
\* find_articles records B in visited_urls, and ends in Done after exactly
\* two expansion steps with the three article URLs discovered.
C6_TwoPageScenario ==
    (run = 1 /\ ~loaded /\ target = 3 /\ TwoPageSite /\ Ended)
        => /\ pc = "done"
           /\ steps = 2
           /\ InSeq(Href_B, visited_urls)
           /\ ToSet(urls) = {Url_a1, Url_a2, Url_a3}

\* ============================================================ Crawler, main
RECURSIVE article_urls(_)
\* The non-empty resolved URLs of the article-link anchors of the pages, in
\* the order of the pages and of the anchors within a page.
article_urls(pages) ==
    IF pages = <<>> THEN <<>>
    ELSE LET titled == find_all_titles(pages[Len(pages)].anchors)
             resolved == [i \in 1..Len(titled) |-> extract_url(titled[i])]
         IN  article_urls(SubSeq(pages, 1, Len(pages) - 1))
                 \o SelectSeq(resolved, LAMBDA u : u # EmptyStr)

RECURSIVE distinct(_)
\* s without the later occurrences of what it already holds.
distinct(s) ==
    IF s = <<>> THEN <<>>
    ELSE LET d == distinct(SubSeq(s, 1, Len(s) - 1))
         IN  IF InSeq(s[Len(s)], d) THEN d ELSE Append(d, s[Len(s)])

first_n(s, n) == SubSeq(s, 1, IF n < Len(s) THEN n ELSE Len(s))

\* C7: when Crawler.find_articles returns, the list is the first N distinct
\* non-empty resolved URLs of the article links of the seed pages in
\* first-seen order, or all of them when there are fewer than N; only then
\* has every seed been read to its end.
C7_FirstNDistinct ==
    pc = "crawled"
        => /\ urls = first_n(distinct(article_urls(seen)), target)
           /\ Len(urls) < target => Len(seen) = Len(Seeds)

C7_DuplicateIgnoredAndCapped ==
    /\ pc = "crawled" /\ target = 2 /\ Len(urls) = 2
    /\ Len(distinct(article_urls(seen))) > 2
    /\ Len(article_urls(seen)) > Len(distinct(article_urls(seen)))
    /\ extract_url(seen[1].anchors[1]) = extract_url(seen[1].anchors[2])

\* C9: when main has ended, every discovered URL has been parsed, the ones
\* after a failed article included, and the articles parsed are written.
C9_SkipAndContinue ==
    pc \in {"finished", "aborted"}
        => /\ (IF pc = "aborted" THEN next_id + 1 ELSE next_id) = Len(urls)
           /\ Len(written) = next_id

\* =============================================================== HTMLParser
\* C8: on a page with the title node and the body container, whatever
\* optional part is absent, parse succeeds, with author ["NOT FOUND"] when
\* there is no author value, no date when there is no date value, and no
\* topic when no category anchor has a title.
C8_OptionalPartsTolerated ==
    (pc \in {"parsed", "error"} /\ article_page.ok /\ article_page.title
        /\ article_page.body
        /\ (article_page.date.node /\ article_page.date.has_attr
                => article_page.date.value
                     \in {<<>>, <<"2023-05-01", "MSK", "10:00">>}))
        => /\ err = ""
           /\ ~(article_page.author.node /\ article_page.author.has_attr
                    /\ article_page.author.value # <<>>)
                => article.author = <<<<"NOT FOUND">>>>
           /\ ~(article_page.date.node /\ article_page.date.has_attr
                    /\ article_page.date.value # <<>>)
                => ~article.has_date
           /\ (\A i \in 1..Len(article_page.links) :
                    ~(article_page.links[i].category
                        /\ article_page.links[i].has_title
                        /\ article_page.links[i].title # <<>>))
                => article.topics = <<>>

\* ================================================================= the file
Malformed(f) == f.exists /\ (~f.json \/ f.keys # AllKeys)

\* C10: with a state file that is unparseable, or lacks one of the four
\* keys, the construction raises nothing and all four fields keep their
\* defaults.
C10_MalformedFileResets ==
    (run >= 1 /\ Malformed(file))
        => /\ err = ""
           /\ num_visited_urls = Defaults.num_visited_urls
           /\ start_url = Defaults.start_url
           /\ urls = Defaults.urls
           /\ visited_urls = Defaults.visited_urls

====
